---- MODULE Spec2Model ----
(***************************************************************************)
(* Escrow event decoding (substream-integration/src/lib.rs) and the        *)
(* analytics passes (substreams/analytics_substream/src/{lib,analytics}.rs)*)
(* of eth-api-payments.                                                    *)
(*                                                                         *)
(* Bytes are 0..255, byte strings are sequences of bytes, Rust Strings are *)
(* sequences of one-character strings.  Machine integers wider than TLC's  *)
(* integers (u64, u128, uint256) are kept as little-endian sequences of    *)
(* decimal digits without leading zeros (zero is the empty sequence), so   *)
(* that no width is lost in the model itself.                              *)
(***************************************************************************)
EXTENDS Integers, Sequences, FiniteSets

VARIABLES
    blk,        \* the eth::Block handed to map_escrow_events
    ti,         \* index of the transaction trace the outer loop is at
    li,         \* index of the log the inner loop is at
    events,     \* the local Vec<EscrowEvent> of map_escrow_events
    status,     \* "running", "ok" (Ok(Events) returned) or "panic" (unwrap on None)
    batch,      \* the decoded logs of one processing unit, in log order
    replayed,   \* TRUE when the unit was delivered twice
    evs,        \* the contract::Events handed to the analytics passes
    pass,       \* the analytics pass that runs or ran
    pc,         \* where that pass is: "idle", a loop of the pass, "done", "panic"
    pos,        \* index of the element the current loop is at
    user_metrics,   \* the HashMap<String, UserMetrics> of analyze_user_behavior
    out         \* the value the pass returned

decVars == <<blk, ti, li, events, status>>

aggVars == <<batch, replayed, evs, pass, pc, pos, user_metrics, out>>

vars == <<decVars, aggVars>>

-----------------------------------------------------------------------------
(* Program constants of substream-integration/src/lib.rs                   *)

ESCROW_CONTRACT_ADDRESS ==
    <<110, 85, 89, 231, 207, 1, 134, 4, 22, 255, 156, 190, 204, 59, 189, 193,
      240, 93, 179, 208>>

USER_DEPOSIT_EVENT_SIG ==
    <<158, 113, 188, 142, 234, 2, 166, 57, 105, 245, 9, 129, 143, 45, 175, 185,
      37, 69, 50, 144, 67, 25, 185, 219, 218, 121, 182, 123, 213, 238, 208, 6>>

USER_WITHDRAW_EVENT_SIG ==
    <<136, 78, 218, 217, 206, 111, 162, 68, 13, 138, 84, 204, 18, 52, 144, 235,
      150, 210, 118, 132, 121, 212, 159, 249, 199, 54, 97, 37, 169, 66, 67, 100>>

PROVIDER_WITHDRAW_EVENT_SIG ==
    <<23, 4, 92, 164, 89, 126, 225, 164, 108, 218, 199, 11, 181, 238, 207, 72,
      212, 176, 94, 251, 192, 195, 194, 197, 47, 14, 158, 139, 14, 140, 124, 47>>

BATCH_PAYMENT_EVENT_SIG ==
    <<244, 117, 122, 73, 179, 38, 3, 100, 100, 190, 198, 254, 65, 154, 74, 227,
      140, 142, 2, 206, 62, 104, 191, 8, 9, 103, 79, 106, 171, 138, 211, 0>>

ZK_VERIFIER_UPDATED_EVENT_SIG ==
    <<191, 155, 91, 46, 140, 108, 126, 58, 93, 76, 11, 62, 111, 42, 123, 140,
      157, 14, 31, 42, 59, 76, 93, 110, 127, 138, 155, 12, 29, 46, 63, 74>>

-----------------------------------------------------------------------------
(* Option values                                                           *)

None == [tag |-> "None"]

Some(v) == [tag |-> "Some", val |-> v]

-----------------------------------------------------------------------------
(* Unsigned integers as little-endian decimal digit sequences              *)

\* d * m + c for a digit sequence d and small naturals m, c
RECURSIVE MulAddFrom(_, _, _, _)
MulAddFrom(d, i, m, c) ==
    IF i > Len(d)
    THEN IF c = 0 THEN <<>> ELSE <<c % 10>> \o MulAddFrom(d, i, m, c \div 10)
    ELSE LET t == d[i] * m + c
         IN  <<t % 10>> \o MulAddFrom(d, i + 1, m, t \div 10)

\* result = (result << 8) | byte, for an accumulator that the loop never
\* fills beyond its width (8 bytes into a u64, 16 bytes into a u128)
ShlOr(result, byte) == MulAddFrom(result, 1, 256, byte)

\* the loop "for &byte in bytes { result = (result << 8) | byte }"
RECURSIVE FoldBytes(_, _, _)
FoldBytes(bytes, i, result) ==
    IF i > Len(bytes) THEN result
    ELSE FoldBytes(bytes, i + 1, ShlOr(result, bytes[i]))

DigitChars == <<"0", "1", "2", "3", "4", "5", "6", "7", "8", "9">>

\* u128::to_string / u64::to_string: decimal, most significant digit first
to_string(n) ==
    IF n = <<>> THEN <<"0">>
    ELSE [i \in 1..Len(n) |-> DigitChars[n[Len(n) + 1 - i] + 1]]

HexChars ==
    <<"0", "1", "2", "3", "4", "5", "6", "7", "8", "9", "a", "b", "c", "d", "e", "f">>

\* substreams::Hex::encode: two lowercase hex characters per byte
HexEncode(bytes) ==
    [i \in 1..(2 * Len(bytes)) |->
        LET b == bytes[(i + 1) \div 2]
        IN  IF i % 2 = 1 THEN HexChars[(b \div 16) + 1] ELSE HexChars[(b % 16) + 1]]

-----------------------------------------------------------------------------
(* Helpers of substream-integration/src/lib.rs                             *)

\* mutant of extract_address_from_topic: the slice starts one byte early
extract_address_from_topic_OffByOne(topic) ==
    IF Len(topic) >= 32
    THEN <<"0", "x">> \o HexEncode(SubSeq(topic, 12, 31))
    ELSE <<>>

\* extract_address_from_topic: "0x" and the hex of topic[12..32], or the
\* empty String for a topic shorter than 32 bytes
extract_address_from_topic(topic) ==
    IF Len(topic) >= 32
    THEN <<"0", "x">> \o HexEncode(SubSeq(topic, 13, 32))
    ELSE <<>>

\* extract_uint256_from_data: folds value_bytes[16..] into a u128 and prints it
extract_uint256_from_data(data, offset) ==
    IF Len(data) >= offset + 32
    THEN LET value_bytes == SubSeq(data, offset + 1, offset + 32)
         IN  to_string(FoldBytes(SubSeq(value_bytes, 17, 32), 1, <<>>))
    ELSE <<"0">>

\* extract_uint256_from_data_as_u64: folds value_bytes[24..32] into a u64
extract_uint256_from_data_as_u64(data, offset) ==
    IF Len(data) >= offset + 32
    THEN LET value_bytes == SubSeq(data, offset + 1, offset + 32)
         IN  FoldBytes(SubSeq(value_bytes, 25, 32), 1, <<>>)
    ELSE <<>>

-----------------------------------------------------------------------------
(* The parse functions of substream-integration/src/lib.rs.  Each returns  *)
(* None, Some(event), or panics: the struct literal unwraps blk.header and *)
(* its timestamp after the topic-count check.                              *)

Panic == [tag |-> "Panic"]

HasTimestamp(b) ==
    /\ b.header.tag = "Some"
    /\ b.header.val.timestamp.tag = "Some"

\* blk.header.as_ref().unwrap().timestamp.as_ref().unwrap().seconds as u64
Timestamp(b) == b.header.val.timestamp.val.seconds

EscrowEvent(type, user, provider, amount, calls, oldv, newv, log, tx_hash, b) ==
    [event_type       |-> type,
     user_address     |-> user,
     provider_address |-> provider,
     amount_cents     |-> amount,
     num_calls        |-> calls,
     old_verifier     |-> oldv,
     new_verifier     |-> newv,
     transaction_hash |-> tx_hash,
     block_number     |-> b.number,
     timestamp        |-> Timestamp(b),
     contract_address |-> HexEncode(log.address),
     gas_used         |-> 0,
     gas_price        |-> <<"0">>]

parse_user_deposit_event(log, tx_hash, b) ==
    IF Len(log.topics) < 2 THEN None
    ELSE IF ~HasTimestamp(b) THEN Panic
    ELSE Some(EscrowEvent("UserDeposit",
                          extract_address_from_topic(log.topics[2]), <<>>,
                          extract_uint256_from_data(log.data, 0), <<>>,
                          <<>>, <<>>, log, tx_hash, b))

parse_user_withdraw_event(log, tx_hash, b) ==
    IF Len(log.topics) < 2 THEN None
    ELSE IF ~HasTimestamp(b) THEN Panic
    ELSE Some(EscrowEvent("UserWithdraw",
                          extract_address_from_topic(log.topics[2]), <<>>,
                          extract_uint256_from_data(log.data, 0), <<>>,
                          <<>>, <<>>, log, tx_hash, b))

parse_provider_withdraw_event(log, tx_hash, b) ==
    IF Len(log.topics) < 2 THEN None
    ELSE IF ~HasTimestamp(b) THEN Panic
    ELSE Some(EscrowEvent("ProviderWithdraw",
                          <<>>, extract_address_from_topic(log.topics[2]),
                          extract_uint256_from_data(log.data, 0), <<>>,
                          <<>>, <<>>, log, tx_hash, b))

parse_batch_payment_event(log, tx_hash, b) ==
    IF Len(log.topics) < 3 THEN None
    ELSE IF ~HasTimestamp(b) THEN Panic
    ELSE Some(EscrowEvent("BatchPayment",
                          extract_address_from_topic(log.topics[2]),
                          extract_address_from_topic(log.topics[3]),
                          extract_uint256_from_data(log.data, 0),
                          extract_uint256_from_data_as_u64(log.data, 32),
                          <<>>, <<>>, log, tx_hash, b))

parse_zk_verifier_updated_event(log, tx_hash, b) ==
    IF Len(log.topics) < 3 THEN None
    ELSE IF ~HasTimestamp(b) THEN Panic
    ELSE Some(EscrowEvent("ZkVerifierUpdated",
                          <<>>, <<>>, <<"0">>, <<>>,
                          extract_address_from_topic(log.topics[2]),
                          extract_address_from_topic(log.topics[3]),
                          log, tx_hash, b))

\* the match on topic0 in map_escrow_events
ParseLog(log, tx_hash, b) ==
    LET topic0 == log.topics[1]
    IN  IF topic0 = USER_DEPOSIT_EVENT_SIG
            THEN parse_user_deposit_event(log, tx_hash, b)
        ELSE IF topic0 = USER_WITHDRAW_EVENT_SIG
            THEN parse_user_withdraw_event(log, tx_hash, b)
        ELSE IF topic0 = PROVIDER_WITHDRAW_EVENT_SIG
            THEN parse_provider_withdraw_event(log, tx_hash, b)
        ELSE IF topic0 = BATCH_PAYMENT_EVENT_SIG
            THEN parse_batch_payment_event(log, tx_hash, b)
        ELSE IF topic0 = ZK_VERIFIER_UPDATED_EVENT_SIG
            THEN parse_zk_verifier_updated_event(log, tx_hash, b)
        ELSE None

-----------------------------------------------------------------------------
(* Input blocks                                                            *)

MaxLogs == 2    \* logs in one block, over all its receipts

MaxTrx == 2     \* transaction traces in one block

Zeros(n) == [i \in 1..n |-> 0]

Fill(n, b) == [i \in 1..n |-> b]

AddrAA == Fill(20, 170)

AddrBB == Fill(20, 187)

AddrMixed == [i \in 1..20 |-> (i * 37 + 1) % 256]

\* an indexed address parameter: 12 padding bytes and the 20 address bytes
PadTopic(pad, addr) == Fill(12, pad) \o addr

OTHER_CONTRACT_ADDRESS == [ESCROW_CONTRACT_ADDRESS EXCEPT ![20] = 209]

UNKNOWN_EVENT_SIG == [BATCH_PAYMENT_EVENT_SIG EXCEPT ![32] = 1]

\* 32-byte big-endian data slots
W500 == Zeros(30) \o <<1, 244>>

W5 == Zeros(31) \o <<5>>

W2p64p5 == Zeros(23) \o <<1>> \o Zeros(7) \o <<5>>

WU64Max == Zeros(24) \o Fill(8, 255)

W2p128p7 == Zeros(15) \o <<1>> \o Zeros(15) \o <<7>>

WMax == Fill(32, 255)

Short(w) == SubSeq(w, 1, 31)

Log(address, topics, data) == [address |-> address, topics |-> topics, data |-> data]

TA == PadTopic(0, AddrAA)

TB == PadTopic(0, AddrBB)

SkippedLogs ==
    { Log(OTHER_CONTRACT_ADDRESS, <<USER_DEPOSIT_EVENT_SIG, TA>>, W500),
      Log(ESCROW_CONTRACT_ADDRESS, <<>>, W500),
      Log(ESCROW_CONTRACT_ADDRESS, <<UNKNOWN_EVENT_SIG, TA, TB>>, W500 \o W5),
      Log(ESCROW_CONTRACT_ADDRESS, <<USER_DEPOSIT_EVENT_SIG>>, W500),
      Log(ESCROW_CONTRACT_ADDRESS, <<USER_WITHDRAW_EVENT_SIG>>, W500),
      Log(ESCROW_CONTRACT_ADDRESS, <<PROVIDER_WITHDRAW_EVENT_SIG>>, W500),
      Log(ESCROW_CONTRACT_ADDRESS, <<BATCH_PAYMENT_EVENT_SIG, TA>>, W500 \o W5),
      Log(ESCROW_CONTRACT_ADDRESS, <<ZK_VERIFIER_UPDATED_EVENT_SIG, TA>>, <<>>) }

WellFormedLogs ==
    { Log(ESCROW_CONTRACT_ADDRESS, <<USER_DEPOSIT_EVENT_SIG, TA>>, W500),
      Log(ESCROW_CONTRACT_ADDRESS, <<USER_DEPOSIT_EVENT_SIG, PadTopic(255, AddrMixed)>>, W2p64p5),
      Log(ESCROW_CONTRACT_ADDRESS, <<USER_DEPOSIT_EVENT_SIG, TA>>, W2p128p7),
      Log(ESCROW_CONTRACT_ADDRESS, <<USER_WITHDRAW_EVENT_SIG, TA>>, W500),
      Log(ESCROW_CONTRACT_ADDRESS, <<USER_WITHDRAW_EVENT_SIG, TB>>, WMax),
      Log(ESCROW_CONTRACT_ADDRESS, <<PROVIDER_WITHDRAW_EVENT_SIG, TB>>, W500),
      Log(ESCROW_CONTRACT_ADDRESS, <<BATCH_PAYMENT_EVENT_SIG, TA, TB>>, W500 \o W5),
      Log(ESCROW_CONTRACT_ADDRESS, <<BATCH_PAYMENT_EVENT_SIG, TA, TB>>, W2p128p7 \o WU64Max),
      Log(ESCROW_CONTRACT_ADDRESS, <<BATCH_PAYMENT_EVENT_SIG, TB, PadTopic(1, AddrMixed)>>, W500 \o W2p64p5),
      Log(ESCROW_CONTRACT_ADDRESS, <<ZK_VERIFIER_UPDATED_EVENT_SIG, TA, TB>>, <<>>) }

ShortDataLogs ==
    { Log(ESCROW_CONTRACT_ADDRESS, <<USER_DEPOSIT_EVENT_SIG, TA>>, Short(W500)),
      Log(ESCROW_CONTRACT_ADDRESS, <<USER_WITHDRAW_EVENT_SIG, TA>>, <<>>),
      Log(ESCROW_CONTRACT_ADDRESS, <<PROVIDER_WITHDRAW_EVENT_SIG, TB>>, Short(W500)),
      Log(ESCROW_CONTRACT_ADDRESS, <<BATCH_PAYMENT_EVENT_SIG, TA, TB>>, W500 \o Short(W5)),
      Log(ESCROW_CONTRACT_ADDRESS, <<BATCH_PAYMENT_EVENT_SIG, TA, TB>>, Short(W500)) }

LogSet == SkippedLogs \cup WellFormedLogs \cup ShortDataLogs

\* the logs that accompany the log under study in a block: one that the
\* address filter skips and one that is decoded
FillerLogs ==
    { Log(OTHER_CONTRACT_ADDRESS, <<USER_DEPOSIT_EVENT_SIG, TA>>, W500),
      Log(ESCROW_CONTRACT_ADDRESS, <<USER_DEPOSIT_EVENT_SIG, TA>>, W500) }

SeqsOfLen(S, k) == [1..k -> S]

InsertAt(seq, p, x) == SubSeq(seq, 1, p - 1) \o <<x>> \o SubSeq(seq, p, Len(seq))

\* the log lists of a block: at most MaxLogs logs, at most one of them
\* outside FillerLogs
LogLists ==
    UNION {SeqsOfLen(FillerLogs, k) : k \in 0..MaxLogs}
    \cup UNION {{InsertAt(f, p, l) : f \in SeqsOfLen(FillerLogs, k - 1), p \in 1..k, l \in LogSet} :
                k \in 1..MaxLogs}

\* the ways to hand the logs out to at most n transaction traces, each
\* without a receipt or with a receipt of some (maybe no) logs
RECURSIVE Splits(_, _)
Splits(logs, n) ==
    (IF logs = <<>> THEN {<<>>} ELSE {})
    \cup (IF n = 0 THEN {}
          ELSE {<<None>> \o rest : rest \in Splits(logs, n - 1)}
               \cup UNION {{<<Some(SubSeq(logs, 1, c))>> \o rest :
                              rest \in Splits(SubSeq(logs, c + 1, Len(logs)), n - 1)} :
                           c \in 0..Len(logs)})

\* transaction i of a block has hash 00..0i
TxHash(i) == Zeros(31) \o <<i>>

Traces(receipts) ==
    [i \in 1..Len(receipts) |-> [hash |-> TxHash(i), receipt |-> receipts[i]]]

Headers ==
    { None,
      Some([timestamp |-> None]),
      Some([timestamp |-> Some([seconds |-> 1700])]) }

Blocks ==
    {[number |-> 7, header |-> h, transaction_traces |-> Traces(rs)] :
        h \in Headers, rs \in UNION {Splits(ls, MaxTrx) : ls \in LogLists}}

-----------------------------------------------------------------------------
(* map_escrow_events of substream-integration/src/lib.rs, one action per   *)
(* iteration of its loops                                                  *)

\* mutant of IsTracked: the address filter is missing
IsTracked_NoFilter(log) == TRUE

\* the filter "log.address != ESCROW_CONTRACT_ADDRESS" negated
IsTracked(log) == log.address = ESCROW_CONTRACT_ADDRESS

EmptyEvents ==
    [escrow_batch_payments |-> <<>>, escrow_user_deposits |-> <<>>,
     escrow_user_withdraws |-> <<>>, escrow_provider_withdraws |-> <<>>]

\* no analytics pass is given anything
AggIdle ==
    /\ batch = <<>>
    /\ replayed = FALSE
    /\ evs = EmptyEvents
    /\ pass = "none"
    /\ pc = "off"
    /\ pos = 0
    /\ user_metrics = <<>>
    /\ out = <<>>

InitDecode ==
    /\ blk \in Blocks
    /\ ti = 1
    /\ li = 1
    /\ events = <<>>
    /\ status = "running"
    /\ AggIdle

InTrx == status = "running" /\ ti <= Len(blk.transaction_traces)

CurTrx == blk.transaction_traces[ti]

\* the loops stand at a log
AtLog ==
    /\ ti <= Len(blk.transaction_traces)
    /\ CurTrx.receipt.tag = "Some"
    /\ li <= Len(CurTrx.receipt.val)

InLog == status = "running" /\ AtLog

CurLog == CurTrx.receipt.val[li]

\* if let Some(receipt) = &trx.receipt fails: next transaction
TrxWithoutReceipt ==
    /\ InTrx
    /\ CurTrx.receipt.tag = "None"
    /\ ti' = ti + 1
    /\ li' = 1
    /\ UNCHANGED <<blk, events, status>>
    /\ UNCHANGED aggVars

\* the inner loop is through: next transaction
EndOfReceipt ==
    /\ InTrx
    /\ CurTrx.receipt.tag = "Some"
    /\ li > Len(CurTrx.receipt.val)
    /\ ti' = ti + 1
    /\ li' = 1
    /\ UNCHANGED <<blk, events, status>>
    /\ UNCHANGED aggVars

\* log.address != ESCROW_CONTRACT_ADDRESS: continue
SkipForeignLog ==
    /\ InLog
    /\ ~IsTracked(CurLog)
    /\ li' = li + 1
    /\ UNCHANGED <<blk, ti, events, status>>
    /\ UNCHANGED aggVars

\* log.topics.is_empty(): continue
SkipLogWithoutTopics ==
    /\ InLog
    /\ IsTracked(CurLog)
    /\ CurLog.topics = <<>>
    /\ li' = li + 1
    /\ UNCHANGED <<blk, ti, events, status>>
    /\ UNCHANGED aggVars

\* the match on topic0 and the push of a parsed event
HandleLog ==
    /\ InLog
    /\ IsTracked(CurLog)
    /\ CurLog.topics # <<>>
    /\ LET event == ParseLog(CurLog, HexEncode(CurTrx.hash), blk)
       IN  IF event.tag = "Panic"
           THEN /\ status' = "panic"
                /\ events' = <<>>
                /\ UNCHANGED li
           ELSE /\ events' = IF event.tag = "Some" THEN Append(events, event.val)
                                                   ELSE events
                /\ li' = li + 1
                /\ UNCHANGED status
    /\ UNCHANGED <<blk, ti>>
    /\ UNCHANGED aggVars

\* Ok(Events { events })
ReturnEvents ==
    /\ status = "running"
    /\ ti > Len(blk.transaction_traces)
    /\ status' = "ok"
    /\ UNCHANGED <<blk, ti, li, events>>
    /\ UNCHANGED aggVars

NextDecode ==
    \/ TrxWithoutReceipt
    \/ EndOfReceipt
    \/ SkipForeignLog
    \/ SkipLogWithoutTopics
    \/ HandleLog
    \/ ReturnEvents

SpecDecode == InitDecode /\ [][NextDecode]_vars

-----------------------------------------------------------------------------
(* Properties of the decoder                                               *)

KnownSignatures ==
    { USER_DEPOSIT_EVENT_SIG, USER_WITHDRAW_EVENT_SIG, PROVIDER_WITHDRAW_EVENT_SIG,
      BATCH_PAYMENT_EVENT_SIG, ZK_VERIFIER_UPDATED_EVENT_SIG }

MinTopicCount(sig) ==
    IF sig \in {BATCH_PAYMENT_EVENT_SIG, ZK_VERIFIER_UPDATED_EVENT_SIG} THEN 3 ELSE 2

EventName(sig) ==
    IF sig = USER_DEPOSIT_EVENT_SIG THEN "UserDeposit"
    ELSE IF sig = USER_WITHDRAW_EVENT_SIG THEN "UserWithdraw"
    ELSE IF sig = PROVIDER_WITHDRAW_EVENT_SIG THEN "ProviderWithdraw"
    ELSE IF sig = BATCH_PAYMENT_EVENT_SIG THEN "BatchPayment"
    ELSE "ZkVerifierUpdated"

\* the log meets every precondition of an event
Qualifies(log) ==
    /\ log.address = ESCROW_CONTRACT_ADDRESS
    /\ log.topics # <<>>
    /\ log.topics[1] \in KnownSignatures
    /\ Len(log.topics) >= MinTopicCount(log.topics[1])

TrxLogs(i) ==
    LET r == blk.transaction_traces[i].receipt
    IN  IF r.tag = "None" THEN <<>>
        ELSE [j \in 1..Len(r.val) |-> [log |-> r.val[j], trx |-> i]]

RECURSIVE LogsOfFirst(_)
LogsOfFirst(n) == IF n = 0 THEN <<>> ELSE LogsOfFirst(n - 1) \o TrxLogs(n)

\* the logs the loops have passed, in block order, each with its transaction
SeenLogs ==
    IF ti > Len(blk.transaction_traces) THEN LogsOfFirst(Len(blk.transaction_traces))
    ELSE LogsOfFirst(ti - 1) \o SubSeq(TrxLogs(ti), 1, li - 1)

\* the passed logs that meet every precondition: event k stems from entry k
Origins == SelectSeq(SeenLogs, LAMBDA x : Qualifies(x.log))

\* C1 (state part): the events pushed so far are, one for one and in order,
\* the events of the passed logs that are from the tracked contract, have a
\* topic, carry a known signature in topics[0] and have that signature's
\* minimum topic count; a log without these yields no event; the handler
\* aborts only at a log that has them; and it returns only after every log
\* of the block was passed.
C1_State ==
    /\ status # "panic" =>
          /\ Len(events) = Len(Origins)
          /\ \A k \in 1..Len(events) :
                /\ events[k].event_type = EventName(Origins[k].log.topics[1])
                /\ events[k].transaction_hash = HexEncode(TxHash(Origins[k].trx))
                /\ events[k].contract_address = HexEncode(ESCROW_CONTRACT_ADDRESS)
    /\ status = "panic" => AtLog /\ Qualifies(CurLog)
    /\ status = "ok" => SeenLogs = LogsOfFirst(Len(blk.transaction_traces))

\* C1 (step part): a log that lacks a precondition is passed over: the loop
\* goes on to the next log with the events unchanged.
C1_Step ==
    (InLog /\ ~Qualifies(CurLog)) =>
        (status' = "running" /\ events' = events /\ ti' = ti /\ li' = li + 1)

\* C1: every emitted event comes from a log of the tracked contract with a
\* non-empty topic list, a known signature in topics[0] and at least that
\* signature's minimum topic count (2 for UserDeposit, UserWithdraw and
\* ProviderWithdraw, 3 for BatchPayment and ZkVerifierUpdated); every other
\* log yields no event and does not stop the remaining logs of the block
\* from being processed.
C1_EventsOnlyFromQualifyingLogs == [](C1_State) /\ [][C1_Step]_vars

\* C1 witness: the handler returned events for a block in which a log that
\* lacks a precondition precedes a log that was decoded.
C1_Witness ==
    /\ status = "ok"
    /\ Len(events) >= 1
    /\ \E i \in 1..Len(SeenLogs) : \E j \in 1..Len(SeenLogs) :
          i < j /\ ~Qualifies(SeenLogs[i].log) /\ Qualifies(SeenLogs[j].log)

\* the decimal representation of a big-endian unsigned integer of any width
Decimal(bytes) == to_string(FoldBytes(bytes, 1, <<>>))

\* C2: the decoded amount is the decimal representation of the full 32-byte
\* big-endian value of the amount slot, never of its low 64 or 128 bits.
C2_AmountIsFullWidth ==
    status # "panic" =>
        \A k \in 1..Len(events) :
            (events[k].event_type # "ZkVerifierUpdated" /\ Len(Origins[k].log.data) >= 32)
                => events[k].amount_cents = Decimal(SubSeq(Origins[k].log.data, 1, 32))

\* C3: an event of a BatchPayment log with a call-count slot has num_calls equal
\* to the big-endian value of data[32..64], and there is such an event only if
\* the 24 high-order bytes of the slot are zero (otherwise the decode reports an
\* error and emits no truncated count).
C3_NumCallsExactOrError ==
    status # "panic" =>
        \A k \in 1..Len(events) :
            (events[k].event_type = "BatchPayment" /\ Len(Origins[k].log.data) >= 64)
                => /\ SubSeq(Origins[k].log.data, 33, 56) = Zeros(24)
                   /\ to_string(events[k].num_calls)
                          = Decimal(SubSeq(Origins[k].log.data, 33, 64))

MinDataLen(type) ==
    IF type = "BatchPayment" THEN 64
    ELSE IF type = "ZkVerifierUpdated" THEN 0
    ELSE 32

\* C4: no event stems from a log whose data payload is shorter than its
\* signature requires (32 bytes for UserDeposit, UserWithdraw and
\* ProviderWithdraw, 64 bytes for BatchPayment).
C4_NoEventFromShortData ==
    status # "panic" =>
        \A k \in 1..Len(events) :
            Len(Origins[k].log.data) >= MinDataLen(events[k].event_type)

HexVal(c) == CHOOSE v \in 0..15 : HexChars[v + 1] = c

HexDecode(str) ==
    [i \in 1..(Len(str) \div 2) |-> 16 * HexVal(str[2 * i - 1]) + HexVal(str[2 * i])]

\* the address fields an event of this type sets, each with its topic
AddressFields(ev, log) ==
    IF ev.event_type \in {"UserDeposit", "UserWithdraw"}
        THEN {<<ev.user_address, log.topics[2]>>}
    ELSE IF ev.event_type = "ProviderWithdraw"
        THEN {<<ev.provider_address, log.topics[2]>>}
    ELSE IF ev.event_type = "BatchPayment"
        THEN {<<ev.user_address, log.topics[2]>>, <<ev.provider_address, log.topics[3]>>}
    ELSE {<<ev.old_verifier, log.topics[2]>>, <<ev.new_verifier, log.topics[3]>>}

\* C5: every address field set in a produced event is "0x" followed by 40 hex
\* characters that decode to exactly the last 20 bytes of its topic, whatever
\* the 12 leading bytes of the topic are.
C5_AddressRoundTrip ==
    status # "panic" =>
        \A k \in 1..Len(events) :
            \A p \in AddressFields(events[k], Origins[k].log) :
                /\ Len(p[1]) = 42
                /\ SubSeq(p[1], 1, 2) = <<"0", "x">>
                /\ HexDecode(SubSeq(p[1], 3, 42)) = SubSeq(p[2], 13, 32)

\* C5 witness: events were returned, one of them decoded from a topic whose
\* 12 leading bytes are not zero, one from a zero-padded topic.
C5_Witness ==
    /\ status = "ok"
    /\ \E k \in 1..Len(events) : Origins[k].log.topics[2][1] = 255
    /\ \E k \in 1..Len(events) :
          /\ Origins[k].log.topics[2] = Zeros(12) \o AddrAA
          /\ events[k].user_address = <<"0", "x">> \o [i \in 1..40 |-> "a"]

-----------------------------------------------------------------------------
(* substreams/analytics_substream: values                                  *)

\* BigDecimal values as reduced fractions num/den with den > 0.  The crate
\* rounds a non-terminating quotient at 100 digits; the fraction is exact.
RECURSIVE GCD(_, _)
GCD(a, b) == IF b = 0 THEN a ELSE GCD(b, a % b)

Norm(n, d) == LET g == GCD(n, d) IN [num |-> n \div g, den |-> d \div g]

\* BigDecimal::from(n)
Big(n) == [num |-> n, den |-> 1]

\* a + b of BigDecimal
BigAdd(a, b) == Norm(a.num * b.den + b.num * a.den, a.den * b.den)

\* a / b of BigDecimal, for b # 0
BigDiv(a, b) == Norm(a.num * b.den, a.den * b.num)

\* a > b of BigDecimal
BigGt(a, b) == a.num * b.den > b.num * a.den

DigitVal(c) == CHOOSE v \in 0..9 : DigitChars[v + 1] = c

IsDigits(str) ==
    /\ str # <<>>
    /\ \A i \in 1..Len(str) : \E v \in 0..9 : DigitChars[v + 1] = str[i]

RECURSIVE DigitsValue(_, _, _)
DigitsValue(str, i, acc) ==
    IF i > Len(str) THEN acc
    ELSE DigitsValue(str, i + 1, acc * 10 + DigitVal(str[i]))

\* BigDecimal::from_str on the strings of the model (decimal digits and
\* letters): Ok for a non-empty digit string, Err otherwise
BigDecimal_from_str(str) ==
    IF IsDigits(str) THEN [ok |-> TRUE, val |-> Big(DigitsValue(str, 1, 0))]
    ELSE [ok |-> FALSE]

\* str::parse::<u64> on the strings of the model
parse_u64(str) ==
    IF IsDigits(str) THEN [ok |-> TRUE, val |-> DigitsValue(str, 1, 0)]
    ELSE [ok |-> FALSE]

\* HashMap insert
MapPut(m, k, v) == [x \in (DOMAIN m) \cup {k} |-> IF x = k THEN v ELSE m[x]]

\* the loop "for x in seq { acc = Op(acc, x) }"
RECURSIVE FoldLeft(_, _, _, _)
FoldLeft(Op(_, _), acc, seq, i) ==
    IF i > Len(seq) THEN acc ELSE FoldLeft(Op, Op(acc, seq[i]), seq, i + 1)

-----------------------------------------------------------------------------
(* Input batches of the analytics passes                                   *)

MaxEvents == 3   \* decoded logs in one processing unit

Decoded(kind, user, provider, amount, num_calls, block) ==
    [kind |-> kind, user |-> user, provider |-> provider, amount |-> amount,
     num_calls |-> num_calls, evt_block_number |-> block]

EventSet ==
    { Decoded("BatchPayment", "u1", "p1", <<"1", "0">>, <<"2">>, 5),
      Decoded("BatchPayment", "u1", "p2", <<"3", "0">>, <<"2">>, 3),
      Decoded("BatchPayment", "u2", "p1", <<"0">>, <<"0">>, 5),
      Decoded("BatchPayment", "u2", "p2", <<"x">>, <<"2">>, 7),
      Decoded("UserDeposit", "u1", "", <<"1", "0">>, <<>>, 5),
      Decoded("UserDeposit", "u1", "", <<"3", "0">>, <<>>, 3),
      Decoded("UserWithdraw", "u1", "", <<"1", "0">>, <<>>, 3),
      Decoded("UserWithdraw", "u2", "", <<"3", "0">>, <<>>, 7),
      Decoded("ProviderWithdraw", "", "p1", <<"1", "0">>, <<>>, 5),
      Decoded("ProviderWithdraw", "", "p1", <<"3", "0">>, <<>>, 7) }

\* log i of the unit has the idempotency key (transaction hash, log index)
Keyed(logs) ==
    [i \in 1..Len(logs) |->
        [kind |-> logs[i].kind, user |-> logs[i].user, provider |-> logs[i].provider,
         amount |-> logs[i].amount, num_calls |-> logs[i].num_calls,
         evt_block_number |-> logs[i].evt_block_number,
         evt_tx_hash |-> <<"tx", logs[i].evt_block_number>>, evt_index |-> i]]

Batches == {Keyed(logs) : logs \in UNION {[1..k -> EventSet] : k \in 0..MaxEvents}}

OfKind(logs, kind) == SelectSeq(logs, LAMBDA x : x.kind = kind)

\* map_escrow_events of analytics_substream: one list per event type, each in
\* log order
EventsOf(logs) ==
    [escrow_batch_payments |->
        LET ps == OfKind(logs, "BatchPayment")
        IN  [i \in 1..Len(ps) |->
                [evt_tx_hash |-> ps[i].evt_tx_hash, evt_index |-> ps[i].evt_index,
                 evt_block_number |-> ps[i].evt_block_number, amount |-> ps[i].amount,
                 num_calls |-> ps[i].num_calls, provider |-> ps[i].provider,
                 user |-> ps[i].user]],
     escrow_user_deposits |->
        LET ds == OfKind(logs, "UserDeposit")
        IN  [i \in 1..Len(ds) |->
                [evt_tx_hash |-> ds[i].evt_tx_hash, evt_index |-> ds[i].evt_index,
                 evt_block_number |-> ds[i].evt_block_number, amount |-> ds[i].amount,
                 user |-> ds[i].user]],
     escrow_user_withdraws |->
        LET ws == OfKind(logs, "UserWithdraw")
        IN  [i \in 1..Len(ws) |->
                [evt_tx_hash |-> ws[i].evt_tx_hash, evt_index |-> ws[i].evt_index,
                 evt_block_number |-> ws[i].evt_block_number, amount |-> ws[i].amount,
                 user |-> ws[i].user]],
     escrow_provider_withdraws |->
        LET ws == OfKind(logs, "ProviderWithdraw")
        IN  [i \in 1..Len(ws) |->
                [evt_tx_hash |-> ws[i].evt_tx_hash, evt_index |-> ws[i].evt_index,
                 evt_block_number |-> ws[i].evt_block_number, amount |-> ws[i].amount,
                 provider |-> ws[i].provider]]]

\* what the passes are handed for a unit delivered once or twice
Delivered(logs, twice) == IF twice THEN logs \o logs ELSE logs

-----------------------------------------------------------------------------
(* analytics.rs: calculate_analytics                                       *)

CalcPaymentStep(acc, payment) ==
    LET amount == BigDecimal_from_str(payment.amount)
    IN  IF amount.ok
        THEN [total_volume  |-> BigAdd(acc.total_volume, amount.val),
              users         |-> acc.users \cup {payment.user},
              providers     |-> acc.providers \cup {payment.provider},
              payment_count |-> acc.payment_count + 1]
        ELSE acc

calculate_analytics(e) ==
    LET acc == FoldLeft(CalcPaymentStep,
                        [total_volume |-> Big(0), users |-> {}, providers |-> {},
                         payment_count |-> 0],
                        e.escrow_batch_payments, 1)
        users == acc.users \cup
                 {e.escrow_user_deposits[i].user : i \in 1..Len(e.escrow_user_deposits)}
    IN  [total_volume      |-> acc.total_volume,
         unique_users      |-> Cardinality(users),
         unique_providers  |-> Cardinality(acc.providers),
         avg_payment_size  |-> IF acc.payment_count > 0
                               THEN BigDiv(acc.total_volume, Big(acc.payment_count))
                               ELSE Big(0),
         payment_frequency |-> acc.payment_count]

-----------------------------------------------------------------------------
(* lib.rs: map_payment_analytics                                           *)

MapPaymentStep(acc, payment) ==
    [total_volume  |-> IF acc.total_volume = <<"0">> THEN payment.amount
                       ELSE acc.total_volume,
     users         |-> acc.users \cup {payment.user},
     providers     |-> acc.providers \cup {payment.provider},
     payment_count |-> acc.payment_count + 1]

map_payment_analytics(e) ==
    LET acc == FoldLeft(MapPaymentStep,
                        [total_volume |-> <<"0">>, users |-> {}, providers |-> {},
                         payment_count |-> 0],
                        e.escrow_batch_payments, 1)
        users == acc.users \cup
                 {e.escrow_user_deposits[i].user : i \in 1..Len(e.escrow_user_deposits)}
    IN  [total_volume      |-> acc.total_volume,
         unique_users      |-> Cardinality(users),
         unique_providers  |-> Cardinality(acc.providers),
         avg_payment_size  |-> IF acc.payment_count > 0 THEN acc.total_volume
                               ELSE <<"0">>,
         payment_frequency |-> acc.payment_count,
         block_number      |-> 0,
         timestamp         |-> None]

-----------------------------------------------------------------------------
(* analytics.rs: analyze_user_behavior                                     *)

\* f64 scores are kept as the terms they are computed from
ZeroScore == [tag |-> "0.0"]

\* UserMetrics::default()
DefaultUserMetrics ==
    [user_address          |-> "",
     total_deposits        |-> Big(0),
     total_withdrawals     |-> Big(0),
     total_payments        |-> Big(0),
     payment_count         |-> 0,
     avg_payment_size      |-> Big(0),
     last_activity_block   |-> 0,
     providers_used        |-> <<>>,
     payment_pattern_score |-> ZeroScore]

\* user_metrics.entry(key).or_default()
EntryOrDefault(m, key, default) == IF key \in DOMAIN m THEN m[key] ELSE default

\* calculate_pattern_score: a fixed function of payment_count,
\* providers_used.len() and, when total_deposits > 0, total_payments /
\* total_deposits
calculate_pattern_score(metrics) ==
    [tag           |-> "score",
     payment_count |-> metrics.payment_count,
     providers     |-> Len(metrics.providers_used),
     ratio         |-> IF BigGt(metrics.total_deposits, Big(0))
                       THEN Some(BigDiv(metrics.total_payments, metrics.total_deposits))
                       ELSE None]

Contains(seq, x) == \E i \in 1..Len(seq) : seq[i] = x

\* one iteration of "for deposit in &events.escrow_user_deposits"
DepositStep(um, deposit) ==
    LET m0 == EntryOrDefault(um, deposit.user, DefaultUserMetrics)
        m1 == [m0 EXCEPT !.user_address = deposit.user]
        amount == BigDecimal_from_str(deposit.amount)
        m2 == IF amount.ok
              THEN [m1 EXCEPT !.total_deposits = BigAdd(@, amount.val)]
              ELSE m1
    IN  MapPut(um, deposit.user,
               [m2 EXCEPT !.last_activity_block = deposit.evt_block_number])

\* one iteration of "for withdrawal in &events.escrow_user_withdraws"
WithdrawStep(um, withdrawal) ==
    LET m0 == EntryOrDefault(um, withdrawal.user, DefaultUserMetrics)
        amount == BigDecimal_from_str(withdrawal.amount)
        m1 == IF amount.ok
              THEN [m0 EXCEPT !.total_withdrawals = BigAdd(@, amount.val)]
              ELSE m0
    IN  MapPut(um, withdrawal.user,
               [m1 EXCEPT !.last_activity_block = withdrawal.evt_block_number])

\* mutant of PaymentStep: the provider is pushed without the contains test
PaymentStep_AlwaysPush(um, payment) ==
    LET m0 == EntryOrDefault(um, payment.user, DefaultUserMetrics)
        amount == BigDecimal_from_str(payment.amount)
        m1 == IF amount.ok
              THEN LET total == BigAdd(m0.total_payments, amount.val)
                       count == m0.payment_count + 1
                   IN  [m0 EXCEPT !.total_payments = total,
                                  !.payment_count = count,
                                  !.avg_payment_size = BigDiv(total, Big(count))]
              ELSE m0
        m2 == [m1 EXCEPT !.providers_used = Append(@, payment.provider)]
        m3 == [m2 EXCEPT !.last_activity_block = payment.evt_block_number]
    IN  MapPut(um, payment.user,
               [m3 EXCEPT !.payment_pattern_score = calculate_pattern_score(m3)])

\* one iteration of "for payment in &events.escrow_batch_payments"
PaymentStep(um, payment) ==
    LET m0 == EntryOrDefault(um, payment.user, DefaultUserMetrics)
        amount == BigDecimal_from_str(payment.amount)
        m1 == IF amount.ok
              THEN LET total == BigAdd(m0.total_payments, amount.val)
                       count == m0.payment_count + 1
                   IN  [m0 EXCEPT !.total_payments = total,
                                  !.payment_count = count,
                                  !.avg_payment_size = BigDiv(total, Big(count))]
              ELSE m0
        m2 == IF ~Contains(m1.providers_used, payment.provider)
              THEN [m1 EXCEPT !.providers_used = Append(@, payment.provider)]
              ELSE m1
        m3 == [m2 EXCEPT !.last_activity_block = payment.evt_block_number]
    IN  MapPut(um, payment.user,
               [m3 EXCEPT !.payment_pattern_score = calculate_pattern_score(m3)])

\* the whole function: the three loops in turn
analyze_user_behavior(e) ==
    FoldLeft(PaymentStep,
             FoldLeft(WithdrawStep,
                      FoldLeft(DepositStep, <<>>, e.escrow_user_deposits, 1),
                      e.escrow_user_withdraws, 1),
             e.escrow_batch_payments, 1)

-----------------------------------------------------------------------------
(* analytics.rs: analyze_provider_performance                              *)

\* ProviderMetrics::default(); the f64 fields hold fractions
DefaultProviderMetrics ==
    [provider_address  |-> "",
     total_earnings    |-> Big(0),
     total_withdrawals |-> Big(0),
     unique_users      |-> 0,
     total_api_calls   |-> 0,
     avg_call_value    |-> Big(0),
     reliability_score |-> Big(0),
     growth_rate       |-> Big(0)]

\* one iteration of the payments loop; amount / BigDecimal::from(0) panics
ProviderPaymentStep(st, payment) ==
    IF st.panic THEN st
    ELSE LET m0 == EntryOrDefault(st.pm, payment.provider, DefaultProviderMetrics)
             m1 == [m0 EXCEPT !.provider_address = payment.provider]
             amount == BigDecimal_from_str(payment.amount)
             calls == parse_u64(payment.num_calls)
         IN  IF ~amount.ok
             THEN [panic |-> FALSE, pm |-> MapPut(st.pm, payment.provider, m1)]
             ELSE LET m2 == [m1 EXCEPT !.total_earnings = BigAdd(@, amount.val)]
                  IN  IF ~calls.ok
                      THEN [panic |-> FALSE, pm |-> MapPut(st.pm, payment.provider, m2)]
                      ELSE IF calls.val = 0
                      THEN [panic |-> TRUE, pm |-> st.pm]
                      ELSE [panic |-> FALSE,
                            pm |-> MapPut(st.pm, payment.provider,
                                     [m2 EXCEPT !.total_api_calls = @ + calls.val,
                                                !.avg_call_value =
                                                    BigDiv(amount.val, Big(calls.val))])]

\* one iteration of the provider withdrawals loop
ProviderWithdrawStep(st, withdrawal) ==
    IF st.panic THEN st
    ELSE LET m0 == EntryOrDefault(st.pm, withdrawal.provider, DefaultProviderMetrics)
             amount == BigDecimal_from_str(withdrawal.amount)
         IN  [panic |-> FALSE,
              pm |-> MapPut(st.pm, withdrawal.provider,
                       IF amount.ok
                       THEN [m0 EXCEPT !.total_withdrawals = BigAdd(@, amount.val)]
                       ELSE m0)]

\* mutant of Reliability: the ratio is stored without .min(1.0)
Reliability_NoClamp(metrics) ==
    IF BigGt(metrics.total_withdrawals, Big(0))
    THEN [metrics EXCEPT !.reliability_score =
                            BigDiv(metrics.total_earnings, metrics.total_withdrawals)]
    ELSE metrics

\* the loop over provider_metrics.iter_mut()
Reliability(metrics) ==
    IF BigGt(metrics.total_withdrawals, Big(0))
    THEN LET ratio == BigDiv(metrics.total_earnings, metrics.total_withdrawals)
         IN  [metrics EXCEPT !.reliability_score =
                                IF BigGt(ratio, Big(1)) THEN Big(1) ELSE ratio]
    ELSE metrics

\* the whole function: [panic |-> TRUE, ..] or the returned map in pm
analyze_provider_performance(e) ==
    LET st == FoldLeft(ProviderWithdrawStep,
                       FoldLeft(ProviderPaymentStep, [panic |-> FALSE, pm |-> <<>>],
                                e.escrow_batch_payments, 1),
                       e.escrow_provider_withdraws, 1)
    IN  IF st.panic THEN st
        ELSE [panic |-> FALSE, pm |-> [k \in DOMAIN st.pm |-> Reliability(st.pm[k])]]

-----------------------------------------------------------------------------
(* The analytics passes as a state machine: a batch is handed to one pass. *)
(* analyze_user_behavior runs one loop iteration per step.                 *)

\* map_escrow_events is not running
DecodeIdle ==
    /\ blk = [number |-> 0, header |-> None, transaction_traces |-> <<>>]
    /\ ti = 1
    /\ li = 1
    /\ events = <<>>
    /\ status = "off"

\* a batch is handed over, once or twice
Handed(twice) ==
    /\ DecodeIdle
    /\ batch \in Batches
    /\ replayed = twice
    /\ evs = EventsOf(Delivered(batch, replayed))
    /\ pass = "none"
    /\ pc = "idle"
    /\ pos = 0
    /\ user_metrics = <<>>
    /\ out = <<>>

InitAgg == Handed(FALSE)

InitReplay == Handed(TRUE)

Return(name, value) ==
    /\ pass' = name
    /\ pc' = "done"
    /\ out' = value
    /\ UNCHANGED <<batch, replayed, evs, pos, user_metrics>>
    /\ UNCHANGED decVars

RunCalculateAnalytics ==
    /\ pc = "idle"
    /\ Return("calculate_analytics", calculate_analytics(evs))

RunMapPaymentAnalytics ==
    /\ pc = "idle"
    /\ Return("map_payment_analytics", map_payment_analytics(evs))

RunAnalyzeProviderPerformance ==
    /\ pc = "idle"
    /\ LET r == analyze_provider_performance(evs)
       IN  /\ pass' = "analyze_provider_performance"
           /\ pc' = IF r.panic THEN "panic" ELSE "done"
           /\ out' = IF r.panic THEN <<>> ELSE r.pm
    /\ UNCHANGED <<batch, replayed, evs, pos, user_metrics>>
    /\ UNCHANGED decVars

\* let mut user_metrics = HashMap::new()
UserBehaviorStart ==
    /\ pc = "idle"
    /\ pass' = "analyze_user_behavior"
    /\ pc' = "deposits"
    /\ pos' = 1
    /\ user_metrics' = <<>>
    /\ UNCHANGED <<batch, replayed, evs, out>>
    /\ UNCHANGED decVars

Loop(at, list, Step(_, _), next) ==
    /\ pc = at
    /\ IF pos <= Len(list)
       THEN /\ user_metrics' = Step(user_metrics, list[pos])
            /\ pos' = pos + 1
            /\ pc' = at
       ELSE /\ pc' = next
            /\ pos' = 1
            /\ UNCHANGED user_metrics
    /\ UNCHANGED <<batch, replayed, evs, pass, out>>
    /\ UNCHANGED decVars

UserBehaviorDeposits ==
    Loop("deposits", evs.escrow_user_deposits, DepositStep, "withdraws")

UserBehaviorWithdraws ==
    Loop("withdraws", evs.escrow_user_withdraws, WithdrawStep, "payments")

UserBehaviorPayments ==
    Loop("payments", evs.escrow_batch_payments, PaymentStep, "return")

\* user_metrics is returned
UserBehaviorReturn ==
    /\ pc = "return"
    /\ pc' = "done"
    /\ out' = user_metrics
    /\ UNCHANGED <<batch, replayed, evs, pass, pos, user_metrics>>
    /\ UNCHANGED decVars

NextAgg ==
    \/ RunCalculateAnalytics
    \/ RunMapPaymentAnalytics
    \/ RunAnalyzeProviderPerformance
    \/ UserBehaviorStart
    \/ UserBehaviorDeposits
    \/ UserBehaviorWithdraws
    \/ UserBehaviorPayments
    \/ UserBehaviorReturn

SpecAgg == InitAgg /\ [][NextAgg]_vars

\* the passes on a batch that was delivered twice
SpecReplay == InitReplay /\ [][NextAgg]_vars

-----------------------------------------------------------------------------
(* Properties of the analytics passes                                      *)

Payments == evs.escrow_batch_payments

NumericPayments == \A i \in 1..Len(Payments) : IsDigits(Payments[i].amount)

\* the arithmetic sum of the amounts of the first n records of a list
RECURSIVE SumAmounts(_, _)
SumAmounts(list, n) ==
    IF n = 0 THEN 0 ELSE SumAmounts(list, n - 1) + DigitsValue(list[n].amount, 1, 0)

RECURSIVE NatToStr(_)
NatToStr(n) ==
    IF n < 10 THEN <<DigitChars[n + 1]>>
    ELSE NatToStr(n \div 10) \o <<DigitChars[(n % 10) + 1]>>

\* C6: in every payment-analytics pass, total_volume is the exact sum of the
\* amounts of all BatchPayment events of the batch (zero without payments).
C6_TotalVolumeIsExactSum ==
    (pc = "done" /\ NumericPayments) =>
        /\ pass = "calculate_analytics" =>
              out.total_volume = [num |-> SumAmounts(Payments, Len(Payments)), den |-> 1]
        /\ pass = "map_payment_analytics" =>
              out.total_volume = NatToStr(SumAmounts(Payments, Len(Payments)))

\* C7: in every payment-analytics pass, avg_payment_size is total_volume
\* divided by the number of BatchPayment events when there is one, and zero
\* when there is none.
C7_AvgIsTotalOverCount ==
    (pc = "done" /\ NumericPayments) =>
        /\ pass = "calculate_analytics" =>
              /\ out.payment_frequency = Len(Payments)
              /\ IF Len(Payments) > 0
                 THEN out.avg_payment_size.num * Len(Payments) * out.total_volume.den
                          = out.total_volume.num * out.avg_payment_size.den
                 ELSE out.avg_payment_size.num = 0
        /\ pass = "map_payment_analytics" =>
              /\ out.payment_frequency = Len(Payments)
              /\ IF Len(Payments) > 0
                 THEN DigitsValue(out.avg_payment_size, 1, 0) * Len(Payments)
                          = DigitsValue(out.total_volume, 1, 0)
                 ELSE out.avg_payment_size = <<"0">>

\* the events as delivered to the pass, in order
DeliveredLogs == Delivered(batch, replayed)

Swap(seq, i, j) == [seq EXCEPT ![i] = seq[j], ![j] = seq[i]]

\* a metrics map with providers_used read as a set
AsSets(um) ==
    [u \in DOMAIN um |->
        [um[u] EXCEPT !.providers_used = {um[u].providers_used[i] :
                                            i \in 1..Len(um[u].providers_used)}]]

\* the pass that ran returns, on the events e, what it returned
SameResultOn(e) ==
    /\ (pc = "done" /\ pass = "calculate_analytics") => calculate_analytics(e) = out
    /\ (pc = "done" /\ pass = "map_payment_analytics") => map_payment_analytics(e) = out
    /\ (pc = "done" /\ pass = "analyze_user_behavior") =>
            AsSets(analyze_user_behavior(e)) = AsSets(out)
    /\ (pc = "done" /\ pass = "analyze_provider_performance") =>
            analyze_provider_performance(e) = [panic |-> FALSE, pm |-> out]
    /\ (pc = "panic" /\ pass = "analyze_provider_performance") =>
            analyze_provider_performance(e).panic

\* C8: every pass returns the same result on every permutation of the events
\* of the batch (stated for the exchange of any two events, which generate
\* the permutations).
C8_OrderIndependent ==
    \A i \in 1..Len(DeliveredLogs) : \A j \in 1..Len(DeliveredLogs) :
        SameResultOn(EventsOf(Swap(DeliveredLogs, i, j)))

\* the sums and counts of a result
Totals(name, result) ==
    IF name \in {"calculate_analytics", "map_payment_analytics"}
        THEN <<result.total_volume, result.payment_frequency>>
    ELSE IF name = "analyze_user_behavior"
        THEN [u \in DOMAIN result |->
                <<result[u].total_deposits, result[u].total_withdrawals,
                  result[u].total_payments, result[u].payment_count>>]
    ELSE [k \in DOMAIN result |->
                <<result[k].total_earnings, result[k].total_withdrawals,
                  result[k].total_api_calls>>]

ResultOn(name, e) ==
    IF name = "calculate_analytics" THEN calculate_analytics(e)
    ELSE IF name = "map_payment_analytics" THEN map_payment_analytics(e)
    ELSE IF name = "analyze_user_behavior" THEN analyze_user_behavior(e)
    ELSE analyze_provider_performance(e).pm

\* C9: a batch delivered twice yields the totals of the batch delivered once:
\* the second contribution of each (transaction hash, log index) is discarded.
C9_ReplayIdempotent ==
    pc = "done" =>
        Totals(pass, out) = Totals(pass, ResultOn(pass, EventsOf(batch)))

\* the block numbers of the deposits, withdrawals and payments of a user
UserBlocks(u) ==
    {evs.escrow_user_deposits[i].evt_block_number :
        i \in {x \in 1..Len(evs.escrow_user_deposits) : evs.escrow_user_deposits[x].user = u}}
    \cup {evs.escrow_user_withdraws[i].evt_block_number :
        i \in {x \in 1..Len(evs.escrow_user_withdraws) : evs.escrow_user_withdraws[x].user = u}}
    \cup {Payments[i].evt_block_number :
        i \in {x \in 1..Len(Payments) : Payments[x].user = u}}

SetMax(S) == CHOOSE m \in S : \A x \in S : x <= m

C10_Final ==
    (pc = "done" /\ pass = "analyze_user_behavior") =>
        \A u \in DOMAIN out : out[u].last_activity_block = SetMax(UserBlocks(u))

C10_Step ==
    \A u \in DOMAIN user_metrics :
        /\ u \in DOMAIN user_metrics'
        /\ user_metrics'[u].last_activity_block >= user_metrics[u].last_activity_block

\* C10: analyze_user_behavior returns, for each user, last_activity_block equal
\* to the largest block number among the user's deposits, withdrawals and
\* payments, and no step of the pass lowers the field.
C10_LastActivityIsMax == [](C10_Final) /\ [][C10_Step]_vars

\* C11: analyze_provider_performance never divides by zero: it completes on
\* every batch, also one with a BatchPayment of call count 0, and returns
\* metrics for every provider that was paid.
C11_NoDivisionByZero ==
    pass = "analyze_provider_performance" =>
        /\ pc # "panic"
        /\ pc = "done" =>
              \A i \in 1..Len(Payments) : Payments[i].provider \in DOMAIN out

\* the records of a list whose amount string is numeric
NumericOnly(list) == SelectSeq(list, LAMBDA x : IsDigits(x.amount))

\* the events without the contributions whose amount is not numeric
WithoutNonNumeric(e) ==
    [escrow_batch_payments     |-> NumericOnly(e.escrow_batch_payments),
     escrow_user_deposits      |-> NumericOnly(e.escrow_user_deposits),
     escrow_user_withdraws     |-> NumericOnly(e.escrow_user_withdraws),
     escrow_provider_withdraws |-> NumericOnly(e.escrow_provider_withdraws)]

\* C12: a contribution whose amount is not numeric is dropped as a whole: each
\* pass returns what it returns on the batch without these contributions (no
\* total, count, address set, providers_used, last_activity_block or map entry
\* comes from them, and the other events are processed).
C12_NonNumericDropped == SameResultOn(WithoutNonNumeric(evs))

\* C13: decoding a block that lacks its header or its timestamp ends in a
\* returned decode failure without events: it neither aborts in an unwrap nor
\* returns Ok, whatever logs the block holds.
C13_MissingHeaderIsErr ==
    ~HasTimestamp(blk) =>
        /\ status # "panic"
        /\ status # "ok"

-----------------------------------------------------------------------------
(* analytics.rs: detect_anomalies; lib.rs: map_anomaly_detection           *)

\* a natural number as a little-endian digit sequence
NatDigits(n) == MulAddFrom(<<>>, 1, 1, n)

\* d * m for a digit sequence d and a small natural m
NatMul(d, m) == IF m = 0 THEN <<>> ELSE MulAddFrom(d, 1, m, 0)

RECURSIVE NatAddFrom(_, _, _, _)
NatAddFrom(a, b, i, c) ==
    IF i > Len(a) /\ i > Len(b)
    THEN IF c = 0 THEN <<>> ELSE <<c>>
    ELSE LET t == (IF i <= Len(a) THEN a[i] ELSE 0)
                  + (IF i <= Len(b) THEN b[i] ELSE 0) + c
         IN  <<t % 10>> \o NatAddFrom(a, b, i + 1, t \div 10)

NatAdd(a, b) == NatAddFrom(a, b, 1, 0)

\* a > b for digit sequences without leading zeros
NatGt(a, b) ==
    \/ Len(a) > Len(b)
    \/ /\ Len(a) = Len(b)
       /\ \E i \in 1..Len(a) :
            /\ a[i] > b[i]
            /\ \A j \in (i + 1)..Len(a) : a[j] = b[j]

Abs(x) == IF x < 0 THEN -x ELSE x

\* the vector "amounts": the payments whose amount parses, as numbers
ParsedAmounts(payments) ==
    LET ok == SelectSeq(payments, LAMBDA p : BigDecimal_from_str(p.amount).ok)
    IN  [i \in 1..Len(ok) |-> DigitsValue(ok[i].amount, 1, 0)]

RECURSIVE SumSeq(_, _)
SumSeq(xs, n) == IF n = 0 THEN 0 ELSE SumSeq(xs, n - 1) + xs[n]

\* sum of the squares of Len(xs) * xs[j] - sum, for j up to n
RECURSIVE SumSquaredDeviations(_, _)
SumSquaredDeviations(xs, n) ==
    IF n = 0 THEN <<>>
    ELSE LET d == Abs(Len(xs) * xs[n] - SumSeq(xs, Len(xs)))
         IN  NatAdd(SumSquaredDeviations(xs, n - 1), NatMul(NatDigits(d), d))

\* amount_f64 > threshold, where mean = sum / len, variance = sum of
\* (x - mean)^2 / len, std_dev = sqrt(variance), threshold = mean + 3 std_dev.
\* With n = len and d(x) = n x - sum:  x > threshold  iff  d(x) > 0 and
\* n d(x)^2 > 9 * sum of d(xj)^2.  The f64 operations are taken as exact.
AboveThreshold(amount, xs) ==
    LET n == Len(xs)
        d == n * amount - SumSeq(xs, n)
    IN  /\ d > 0
        /\ NatGt(NatMul(NatMul(NatDigits(d), d), n),
                 NatMul(SumSquaredDeviations(xs, n), 9))

\* format!("Unusually large payment: {} from user {} to provider {} (tx: {})")
AnomalyText(payment) ==
    [text |-> "Unusually large payment", amount |-> payment.amount,
     user |-> payment.user, provider |-> payment.provider,
     tx |-> payment.evt_tx_hash]

detect_anomalies(e) ==
    LET amounts == ParsedAmounts(e.escrow_batch_payments)
    IN  IF amounts # <<>>
        THEN LET large == SelectSeq(e.escrow_batch_payments,
                            LAMBDA p : /\ BigDecimal_from_str(p.amount).ok
                                       /\ AboveThreshold(DigitsValue(p.amount, 1, 0),
                                                         amounts))
             IN  [i \in 1..Len(large) |-> AnomalyText(large[i])]
        ELSE <<>>

\* the limit of "amount > 1000000.0"
LARGE_PAYMENT == 1000000

\* blk.timestamp() of the block an event is from
BlockTime(number) == Some([of_block |-> number])

\* the first payment whose amount parses as f64 and is over the limit, or 0:
\* the loop returns from inside at that payment
RECURSIVE FirstLargePayment(_, _)
FirstLargePayment(payments, i) ==
    IF i > Len(payments) THEN 0
    ELSE IF /\ IsDigits(payments[i].amount)
            /\ DigitsValue(payments[i].amount, 1, 0) > LARGE_PAYMENT
         THEN i
         ELSE FirstLargePayment(payments, i + 1)

map_anomaly_detection(e) ==
    LET i == FirstLargePayment(e.escrow_batch_payments, 1)
    IN  IF i > 0
        THEN LET payment == e.escrow_batch_payments[i]
             IN  [anomaly_type     |-> "large_payment",
                  description      |-> [text |-> "Large payment detected",
                                        amount |-> payment.amount],
                  user_address     |-> payment.user,
                  provider_address |-> payment.provider,
                  transaction_hash |-> payment.evt_tx_hash,
                  severity_score   |-> [tag |-> "0.8"],
                  detected_at      |-> BlockTime(payment.evt_block_number),
                  block_number     |-> payment.evt_block_number]
        ELSE [anomaly_type     |-> "none",
              description      |-> [text |-> "No anomalies detected"],
              user_address     |-> <<>>,
              provider_address |-> <<>>,
              transaction_hash |-> <<>>,
              severity_score   |-> ZeroScore,
              detected_at      |-> None,
              block_number     |-> 0]

-----------------------------------------------------------------------------
(* Anomaly detection as a state machine: a list of payments, most of them  *)
(* of one common amount, is handed to one of the two detectors.            *)

MaxRepeat == 11   \* payments of the common amount in one batch

CommonAmounts == {<<"1", "0">>, <<"2", "0", "0", "0", "0", "0", "0">>}

OtherAmounts == {<<"1", "0", "0", "0">>, <<"2", "0", "0", "0", "0", "0", "0">>, <<"x">>}

PaymentOf(amount) == Decoded("BatchPayment", "u1", "p1", amount, <<"2">>, 5)

\* k payments of one amount, alone or with one other payment before or after
AnomalyBatches ==
    LET common == {[i \in 1..k |-> PaymentOf(a)] : k \in 0..MaxRepeat, a \in CommonAmounts}
    IN  {Keyed(c) : c \in common}
        \cup {Keyed(c \o <<PaymentOf(o)>>) : c \in common, o \in OtherAmounts}
        \cup {Keyed(<<PaymentOf(o)>> \o c) : c \in common, o \in OtherAmounts}

InitAnomaly ==
    /\ DecodeIdle
    /\ batch \in AnomalyBatches
    /\ replayed = FALSE
    /\ evs = EventsOf(batch)
    /\ pass = "none"
    /\ pc = "idle"
    /\ pos = 0
    /\ user_metrics = <<>>
    /\ out = <<>>

RunDetectAnomalies ==
    /\ pc = "idle"
    /\ Return("detect_anomalies", detect_anomalies(evs))

RunMapAnomalyDetection ==
    /\ pc = "idle"
    /\ Return("map_anomaly_detection", map_anomaly_detection(evs))

NextAnomaly ==
    \/ RunDetectAnomalies
    \/ RunMapAnomalyDetection

SpecAnomaly == InitAnomaly /\ [][NextAnomaly]_vars

-----------------------------------------------------------------------------
(* Properties of anomaly detection                                         *)

\* what a detector reported: one record per flagged payment
AnomalyRecords ==
    IF pass = "detect_anomalies"
    THEN [i \in 1..Len(out) |->
            [user |-> out[i].user, provider |-> out[i].provider,
             amount |-> out[i].amount, tx |-> out[i].tx]]
    ELSE IF out.anomaly_type = "none" THEN <<>>
    ELSE <<[user |-> out.user_address, provider |-> out.provider_address,
            amount |-> out.description.amount, tx |-> out.transaction_hash]>>

AllAmountsEqual ==
    \A i \in 1..Len(Payments) : Payments[i].amount = Payments[1].amount

\* C14: for an empty list of BatchPayments and for a list whose amounts are
\* all equal, whatever the amount, anomaly detection reports nothing.
C14_NoAnomalyWithoutSpread ==
    (pc = "done" /\ AllAmountsEqual) => AnomalyRecords = <<>>

\* the payments whose amount is strictly over mean + 3 * (population standard
\* deviation) of the numeric amounts of the batch
OverThreeSigma ==
    LET xs == [i \in 1..Len(NumericOnly(Payments)) |->
                  DigitsValue(NumericOnly(Payments)[i].amount, 1, 0)]
        n  == Len(xs)
        s  == SumSeq(xs, n)
    IN  SelectSeq(NumericOnly(Payments),
            LAMBDA p : LET d == n * DigitsValue(p.amount, 1, 0) - s
                       IN  /\ d > 0
                           /\ NatGt(NatMul(NatMul(NatDigits(d), d), n),
                                    NatMul(SumSquaredDeviations(xs, n), 9)))

\* C15: anomaly detection reports exactly one record for every BatchPayment
\* whose amount is strictly over mean + 3 sigma and none for any other
\* payment; [10, 10, 10, 10, 1000] yields no record.
C15_ExactlyTheThreeSigmaOutliers ==
    pc = "done" =>
        AnomalyRecords =
            [i \in 1..Len(OverThreeSigma) |->
                [user |-> OverThreeSigma[i].user, provider |-> OverThreeSigma[i].provider,
                 amount |-> OverThreeSigma[i].amount, tx |-> OverThreeSigma[i].evt_tx_hash]]

-----------------------------------------------------------------------------
(* Properties of the provider and user metrics                             *)

\* C16: after analyze_provider_performance, a provider with total_withdrawals
\* > 0 has reliability_score = min(total_earnings / total_withdrawals, 1), a
\* provider without withdrawals has reliability_score = 0, and the score lies
\* in [0, 1].
C16_ReliabilityScore ==
    (pc = "done" /\ pass = "analyze_provider_performance") =>
        \A k \in DOMAIN out :
            LET m == out[k]
                score == m.reliability_score
            IN  /\ m.total_withdrawals.num > 0 =>
                      IF BigGt(m.total_earnings, m.total_withdrawals)
                      THEN score = Big(1)
                      ELSE /\ score.num * m.total_withdrawals.num * m.total_earnings.den
                                = m.total_earnings.num * score.den * m.total_withdrawals.den
                /\ m.total_withdrawals.num = 0 => score.num = 0
                /\ score.num >= 0
                /\ score.num <= score.den

\* a provider that earned more than it withdrew is scored 1 (and one that
\* earned less is scored below 1)
C16_Witness ==
    /\ pc = "done"
    /\ pass = "analyze_provider_performance"
    /\ \E k \in DOMAIN out :
          /\ out[k].total_withdrawals.num > 0
          /\ BigGt(out[k].total_earnings, out[k].total_withdrawals)
          /\ out[k].reliability_score = Big(1)

-----------------------------------------------------------------------------
(* lib.rs: map_network_metrics                                             *)

\* mutant of NetworkPaymentStep: the count of a pair is set, not incremented
NetworkPaymentStep_NoCount(acc, payment) ==
    LET key == <<payment.user, payment.provider>>
    IN  [users        |-> acc.users \cup {payment.user},
         providers    |-> acc.providers \cup {payment.provider},
         connections  |-> MapPut(acc.connections, key, 1),
         total_volume |-> IF acc.total_volume = <<"0">> THEN payment.amount
                          ELSE acc.total_volume]

\* one iteration of "for payment in &events.escrow_batch_payments"
NetworkPaymentStep(acc, payment) ==
    LET key == <<payment.user, payment.provider>>
    IN  [users        |-> acc.users \cup {payment.user},
         providers    |-> acc.providers \cup {payment.provider},
         connections  |-> MapPut(acc.connections, key,
                                 EntryOrDefault(acc.connections, key, 0) + 1),
         total_volume |-> IF acc.total_volume = <<"0">> THEN payment.amount
                          ELSE acc.total_volume]

\* the state after the payments loop
NetworkAfterPayments(e) ==
    FoldLeft(NetworkPaymentStep,
             [users |-> {}, providers |-> {}, connections |-> <<>>,
              total_volume |-> <<"0">>],
             e.escrow_batch_payments, 1)

\* the orders in which a HashMap with the keys S may be iterated: the order
\* is that of the hash table, which the program does not control
RECURSIVE IterationOrders(_)
IterationOrders(S) ==
    IF S = {} THEN {<<>>}
    ELSE UNION {{<<x>> \o rest : rest \in IterationOrders(S \ {x})} : x \in S}

\* mutant of network_density: the pairs per user
network_density_PerUser(active_pairs, total_users, total_providers) ==
    IF total_users * total_providers > 0
    THEN Norm(active_pairs, total_users)
    ELSE Big(0)

\* active_pairs as f64 / max_possible_connections as f64, or 0.0
network_density(active_pairs, total_users, total_providers) ==
    IF total_users * total_providers > 0
    THEN Norm(active_pairs, total_users * total_providers)
    ELSE Big(0)

UserProviderEdge(key, count) ==
    [user_address          |-> key[1],
     provider_address      |-> key[2],
     total_volume          |-> <<"0">>,
     transaction_count     |-> count,
     relationship_strength |-> Norm(count, 10)]

\* the function, for the order in which connections.iter() yields the pairs
map_network_metrics(e, order) ==
    LET acc == NetworkAfterPayments(e)
        users == acc.users \cup
                 {e.escrow_user_deposits[i].user : i \in 1..Len(e.escrow_user_deposits)}
        total_users == Cardinality(users)
        total_providers == Cardinality(acc.providers)
        active_pairs == Cardinality(DOMAIN acc.connections)
        taken == SubSeq(order, 1, IF Len(order) < 5 THEN Len(order) ELSE 5)
    IN  [total_unique_users         |-> total_users,
         total_unique_providers     |-> total_providers,
         active_user_provider_pairs |-> active_pairs,
         network_density            |-> network_density(active_pairs, total_users,
                                                        total_providers),
         top_connections            |-> [i \in 1..Len(taken) |->
                                            UserProviderEdge(taken[i],
                                                             acc.connections[taken[i]])],
         total_network_volume       |-> acc.total_volume]

-----------------------------------------------------------------------------
(* map_network_metrics as a state machine: payments between distinct       *)
(* (user, provider) pairs, with one pair paid twice or with users who only *)
(* deposited, are handed to the function.                                  *)

MaxPairs == 6   \* distinct (user, provider) pairs in one batch

UserNames == <<"u1", "u2", "u3", "u4">>

\* the k-th pair: u1-p1, u1-p2, u2-p1, u2-p2, ..
PairPayment(k) ==
    Decoded("BatchPayment", UserNames[(k + 1) \div 2],
            IF k % 2 = 1 THEN "p1" ELSE "p2", <<"1", "0">>, <<"2">>, 5)

\* users who deposit and pay nobody
Depositors == <<"u7", "u8", "u9">>

DepositOf(user) == Decoded("UserDeposit", user, "", <<"1", "0">>, <<>>, 5)

NetworkBatches ==
    LET first(k) == [i \in 1..k |-> PairPayment(i)]
    IN  {Keyed(first(k)) : k \in 0..MaxPairs}
        \cup {Keyed(first(k) \o <<PairPayment(j)>>) : k \in 1..MaxPairs, j \in 1..MaxPairs}
        \cup {Keyed(first(k) \o [i \in 1..d |-> DepositOf(Depositors[i])]) :
                k \in 0..MaxPairs, d \in 1..Len(Depositors)}

InitNetwork ==
    /\ DecodeIdle
    /\ batch \in NetworkBatches
    /\ replayed = FALSE
    /\ evs = EventsOf(batch)
    /\ pass = "none"
    /\ pc = "idle"
    /\ pos = 0
    /\ user_metrics = <<>>
    /\ out = <<>>

RunMapNetworkMetrics ==
    /\ pc = "idle"
    /\ \E order \in IterationOrders(DOMAIN NetworkAfterPayments(evs).connections) :
          Return("map_network_metrics", map_network_metrics(evs, order))

NextNetwork == RunMapNetworkMetrics

SpecNetwork == InitNetwork /\ [][NextNetwork]_vars

-----------------------------------------------------------------------------
(* Properties of map_network_metrics                                       *)

\* the distinct (user, provider) pairs among the BatchPayments
PaidPairs == {<<Payments[i].user, Payments[i].provider>> : i \in 1..Len(Payments)}

\* the users of the batch: who paid or deposited
BatchUsers ==
    {Payments[i].user : i \in 1..Len(Payments)}
    \cup {evs.escrow_user_deposits[i].user : i \in 1..Len(evs.escrow_user_deposits)}

\* the providers of the batch: who was paid
BatchProviders == {Payments[i].provider : i \in 1..Len(Payments)}

InteractionCount(pair) ==
    Cardinality({i \in 1..Len(Payments) :
                    <<Payments[i].user, Payments[i].provider>> = pair})

FirstObserved(pair) ==
    CHOOSE i \in 1..Len(Payments) :
        /\ <<Payments[i].user, Payments[i].provider>> = pair
        /\ \A j \in 1..(i - 1) : <<Payments[j].user, Payments[j].provider>> # pair

\* C18: top_connections holds the min(5, number of pairs) pairs with the
\* largest interaction counts: no omitted pair has a larger count than a
\* listed one, and the edges are listed by decreasing count, pairs of equal
\* count in the order in which they were first observed, so that the list is
\* determined by the batch.
C18_TopConnections ==
    (pc = "done" /\ pass = "map_network_metrics") =>
        LET top == out.top_connections
            key(i) == <<top[i].user_address, top[i].provider_address>>
            listed == {key(i) : i \in 1..Len(top)}
        IN  /\ Len(top) = IF Cardinality(PaidPairs) < 5 THEN Cardinality(PaidPairs) ELSE 5
            /\ \A i \in 1..Len(top) :
                  /\ key(i) \in PaidPairs
                  /\ top[i].transaction_count = InteractionCount(key(i))
            /\ \A p \in PaidPairs \ listed : \A q \in listed :
                  InteractionCount(p) <= InteractionCount(q)
            /\ \A i \in 1..Len(top) : \A j \in (i + 1)..Len(top) :
                  \/ InteractionCount(key(i)) > InteractionCount(key(j))
                  \/ /\ InteractionCount(key(i)) = InteractionCount(key(j))
                     /\ FirstObserved(key(i)) < FirstObserved(key(j))

-----------------------------------------------------------------------------
(* Properties of the user and provider metrics, continued                  *)

\* the records of a list that belong to a user
OfUser(list, u) == SelectSeq(list, LAMBDA x : x.user = u)

\* every amount of the batch is numeric
AllNumeric ==
    /\ NumericPayments
    /\ \A i \in 1..Len(evs.escrow_user_deposits) : IsDigits(evs.escrow_user_deposits[i].amount)
    /\ \A i \in 1..Len(evs.escrow_user_withdraws) : IsDigits(evs.escrow_user_withdraws[i].amount)

\* the users with a deposit, a withdrawal or a payment in the batch
ActiveUsers ==
    {evs.escrow_user_deposits[i].user : i \in 1..Len(evs.escrow_user_deposits)}
    \cup {evs.escrow_user_withdraws[i].user : i \in 1..Len(evs.escrow_user_withdraws)}
    \cup {Payments[i].user : i \in 1..Len(Payments)}

\* C19: after analyze_user_behavior on a batch of numeric amounts, every user
\* has the exact sums of its deposits, withdrawals and payments, the number of
\* its payments, avg_payment_size = total_payments / payment_count when it
\* paid, and each provider it paid exactly once in providers_used.
C19_UserMetricsAreExact ==
    (pc = "done" /\ pass = "analyze_user_behavior" /\ AllNumeric) =>
        /\ DOMAIN out = ActiveUsers
        /\ \A u \in ActiveUsers :
              LET m == out[u]
                  deposits == OfUser(evs.escrow_user_deposits, u)
                  withdraws == OfUser(evs.escrow_user_withdraws, u)
                  paid == OfUser(Payments, u)
              IN  /\ m.total_deposits = Big(SumAmounts(deposits, Len(deposits)))
                  /\ m.total_withdrawals = Big(SumAmounts(withdraws, Len(withdraws)))
                  /\ m.total_payments = Big(SumAmounts(paid, Len(paid)))
                  /\ m.payment_count = Len(paid)
                  /\ Len(paid) > 0 =>
                        m.avg_payment_size.num * Len(paid) * m.total_payments.den
                            = m.total_payments.num * m.avg_payment_size.den
                  /\ {m.providers_used[i] : i \in 1..Len(m.providers_used)}
                        = {paid[i].provider : i \in 1..Len(paid)}
                  /\ \A i \in 1..Len(m.providers_used) : \A j \in 1..Len(m.providers_used) :
                        m.providers_used[i] = m.providers_used[j] => i = j

\* a user who deposited and paid the same provider twice
C19_Witness ==
    /\ pc = "done"
    /\ pass = "analyze_user_behavior"
    /\ AllNumeric
    /\ \E u \in DOMAIN out :
          /\ out[u].payment_count = 2
          /\ Len(out[u].providers_used) = 1
          /\ out[u].total_deposits.num > 0

\* the BatchPayments to a provider
PaidTo(k) == SelectSeq(Payments, LAMBDA x : x.provider = k)

\* the sum of the call counts of the first n records of a list
RECURSIVE SumCalls(_, _)
SumCalls(list, n) ==
    IF n = 0 THEN 0 ELSE SumCalls(list, n - 1) + DigitsValue(list[n].num_calls, 1, 0)

\* C20: after analyze_provider_performance, unique_users of a provider is the
\* number of distinct users with a BatchPayment to it, and total_api_calls is
\* the sum of the call counts of these payments.
C20_ProviderUsersAndCalls ==
    (pc = "done" /\ pass = "analyze_provider_performance" /\ NumericPayments) =>
        \A k \in DOMAIN out :
            /\ out[k].unique_users =
                  Cardinality({PaidTo(k)[i].user : i \in 1..Len(PaidTo(k))})
            /\ out[k].total_api_calls = SumCalls(PaidTo(k), Len(PaidTo(k)))

\* C21: every entry of the maps returned by analyze_user_behavior and
\* analyze_provider_performance carries its own key in user_address or
\* provider_address, also when the user only withdrew or paid and when the
\* provider only withdrew.
C21_EntriesCarryTheirKey ==
    /\ (pc = "done" /\ pass = "analyze_user_behavior") =>
          \A k \in DOMAIN out : out[k].user_address = k
    /\ (pc = "done" /\ pass = "analyze_provider_performance") =>
          \A k \in DOMAIN out : out[k].provider_address = k

\* the sum of the interaction counts of the pairs in S
RECURSIVE SumCounts(_, _)
SumCounts(connections, S) ==
    IF S = {} THEN 0
    ELSE LET p == CHOOSE x \in S : TRUE
         IN  connections[p] + SumCounts(connections, S \ {p})

\* C22: the output of map_network_metrics satisfies total_unique_providers <=
\* active_user_provider_pairs <= number of BatchPayments, active pairs <=
\* users * providers, 0 <= network_density <= 1, the interaction counts of
\* all pairs sum to the number of BatchPayments, and top_connections has at
\* most 5 entries, of pairwise distinct pairs, each with a count of at least 1.
C22_NetworkMetricsInvariants ==
    (pc = "done" /\ pass = "map_network_metrics") =>
        LET connections == NetworkAfterPayments(evs).connections
            top == out.top_connections
        IN  /\ out.total_unique_providers <= out.active_user_provider_pairs
            /\ out.active_user_provider_pairs <= Len(Payments)
            /\ out.active_user_provider_pairs
                  <= out.total_unique_users * out.total_unique_providers
            /\ out.network_density.num >= 0
            /\ out.network_density.num <= out.network_density.den
            /\ SumCounts(connections, DOMAIN connections) = Len(Payments)
            /\ Len(top) <= 5
            /\ \A i \in 1..Len(top) :
                  /\ top[i].transaction_count >= 1
                  /\ \A j \in 1..Len(top) :
                        (/\ top[i].user_address = top[j].user_address
                         /\ top[i].provider_address = top[j].provider_address) => i = j

\* six pairs, one of them paid twice: five edges are listed
C22_Witness ==
    /\ pc = "done"
    /\ pass = "map_network_metrics"
    /\ out.active_user_provider_pairs = 6
    /\ Len(Payments) = 7
    /\ Len(out.top_connections) = 5
    /\ \E i \in 1..5 : out.top_connections[i].transaction_count = 2

====
